---- MODULE Spec2Model ----
(***************************************************************************)
(* Model of the nexus GPU shape encoding (src/shapes.rs) and of the        *)
(* construction of a GpuBodySet (src/dynamics/body.rs).                    *)
(*                                                                         *)
(* A u32 is the pair <<hi, lo>> of its two 16-bit halves, so the full      *)
(* 32-bit width is kept.  An f32 is the record of its IEEE-754 fields      *)
(* [s, e, m] (sign, 8-bit exponent, 23-bit mantissa); f32::from_bits       *)
(* splits a u32 into these fields and f32::to_bits packs them again.       *)
(***************************************************************************)
EXTENDS Integers, Sequences, FiniteSets, TLC

VARIABLES
    dim,              \* build feature: 2 ("dim2") or 3 ("dim3")
    rec,              \* shape spec: the GpuShape record under inspection
    ctor,             \* shape spec: how rec was made, with its range argument
    out,              \* shape spec: the result of the last decoder call
    buffers,          \* pool spec: the shared ShapeBuffers (its vertices)
    calls,            \* pool spec: the from_parry calls made so far, in order
    pc,               \* body-set spec: position in from_rapier / new
    coupling,         \* body-set spec: the coupling entries iterated so far
    shape_buffers,    \* from_rapier local: ShapeBuffers
    gpu_bodies,       \* from_rapier local: Vec<BodyDesc>
    pt_collider_ids,  \* from_rapier local: Vec<u32>
    uploads,          \* the GPU buffers uploaded by new, in upload order
    set,              \* the GpuBodySet returned by new (when pc = "done")
    via,              \* the entry point called: "from_rapier" or "new"
    error,            \* the B::Error returned by new (when pc = "err")
    dispatches,       \* the compute dispatches submitted to the backend, in order
    launch_result     \* what the last WgIntegrate::launch returned

vars == <<dim, rec, ctor, out, buffers, calls, pc, coupling, shape_buffers,
          gpu_bodies, pt_collider_ids, uploads, set, via, error, dispatches,
          launch_result>>

shapeVars == <<rec, ctor, out>>
poolVars == <<buffers, calls>>
bodyVars ==
    <<pc, coupling, shape_buffers, gpu_bodies, pt_collider_ids, uploads, set, via, error,
      dispatches, launch_result>>

(***************************************************************************)
(* Bit-level values                                                        *)
(***************************************************************************)
Half == 65536

\* `n as u32` for a usize n: truncation to 32 bits.
U32(n) == <<(n \div Half) % Half, n % Half>>

\* The numeric value of a u32 that fits the model's integers.
U32Val(u) == u[1] * Half + u[2]

\* f32::from_bits: reinterpret the 32 bits as sign / exponent / mantissa.
from_bits(u) ==
    [s |-> u[1] \div 32768, e |-> (u[1] \div 128) % 256, m |-> (u[1] % 128) * Half + u[2]]

\* A to_bits that canonicalises NaN payloads (exponent 255, mantissa # 0).
to_bits_canon(f) ==
    IF f.e = 255 /\ f.m # 0
    THEN <<32704, 0>>
    ELSE <<f.s * 32768 + f.e * 128 + f.m \div Half, f.m % Half>>

\* f32::to_bits: the 32 bits of the float, unchanged.
to_bits(f) == <<f.s * 32768 + f.e * 128 + f.m \div Half, f.m % Half>>

\* The literal 0.0.
F0 == from_bits(<<0, 0>>)

\* GpuShapeType discriminants.
Ball == 0
Cuboid == 1
Capsule == 2
Cone == 3
Cylinder == 4
Polyline == 5
TriMesh == 6

(***************************************************************************)
(* GpuShape constructors                                                   *)
(***************************************************************************)
ball(radius) ==
    LET tag == from_bits(U32(Ball))
    IN [a |-> <<radius, F0, F0, tag>>, b |-> <<F0, F0, F0, F0>>]

\* half_extents is a Vector: a tuple of dim components.
cuboid(half_extents) ==
    LET tag == from_bits(U32(Cuboid))
    IN [a |-> IF dim = 2
              THEN <<half_extents[1], half_extents[2], F0, tag>>
              ELSE <<half_extents[1], half_extents[2], half_extents[3], tag>>,
        b |-> <<F0, F0, F0, F0>>]

capsule(a, b, radius) ==
    LET tag == from_bits(U32(Capsule))
    IN IF dim = 2
       THEN [a |-> <<a[1], a[2], F0, tag>>, b |-> <<b[1], b[2], F0, radius>>]
       ELSE [a |-> <<a[1], a[2], a[3], tag>>, b |-> <<b[1], b[2], b[3], radius>>]

polyline(vertex_range) ==
    LET tag == from_bits(U32(Polyline))
        rng0 == from_bits(vertex_range[1])
        rng1 == from_bits(vertex_range[2])
    IN [a |-> <<rng0, rng1, F0, tag>>, b |-> <<F0, F0, F0, F0>>]

trimesh(vertex_range) ==
    LET tag == from_bits(U32(TriMesh))
        rng0 == from_bits(vertex_range[1])
        rng1 == from_bits(vertex_range[2])
    IN [a |-> <<rng0, rng1, F0, tag>>, b |-> <<F0, F0, F0, F0>>]

\* dim3 only
cone(half_height, radius) ==
    LET tag == from_bits(U32(Cone))
    IN [a |-> <<half_height, radius, F0, tag>>, b |-> <<F0, F0, F0, F0>>]

\* dim3 only
cylinder(half_height, radius) ==
    LET tag == from_bits(U32(Cylinder))
    IN [a |-> <<half_height, radius, F0, tag>>, b |-> <<F0, F0, F0, F0>>]

(***************************************************************************)
(* GpuShape decoders.  A panic is the result "PANIC" / [panic |-> TRUE].   *)
(***************************************************************************)
\* A shape_type whose Cone / Cylinder arms are not gated on the dim3 feature
\* and whose fall-through arm answers Ball instead of panicking.
shape_type_lax(shape) ==
    LET tag == to_bits(shape.a[4])
    IN CASE tag = U32(1) -> "Cuboid"
         [] tag = U32(2) -> "Capsule"
         [] tag = U32(3) -> "Cone"
         [] tag = U32(4) -> "Cylinder"
         [] tag = U32(5) -> "Polyline"
         [] tag = U32(6) -> "TriMesh"
         [] OTHER -> "Ball"

\* A shape_type that reads the tag from a.z instead of a.w.
shape_type_z(shape) ==
    LET tag == to_bits(shape.a[3])
    IN CASE tag = U32(0) -> "Ball"
         [] tag = U32(1) -> "Cuboid"
         [] tag = U32(2) -> "Capsule"
         [] tag = U32(3) /\ dim = 3 -> "Cone"
         [] tag = U32(4) /\ dim = 3 -> "Cylinder"
         [] tag = U32(5) -> "Polyline"
         [] tag = U32(6) -> "TriMesh"
         [] OTHER -> "PANIC"

shape_type(shape) ==
    LET tag == to_bits(shape.a[4])
    IN CASE tag = U32(0) -> "Ball"
         [] tag = U32(1) -> "Cuboid"
         [] tag = U32(2) -> "Capsule"
         [] tag = U32(3) /\ dim = 3 -> "Cone"
         [] tag = U32(4) /\ dim = 3 -> "Cylinder"
         [] tag = U32(5) -> "Polyline"
         [] tag = U32(6) -> "TriMesh"
         [] OTHER -> "PANIC"

NoRange == <<<<0, 0>>, <<0, 0>>>>

\* A polyline_rngs without its assertion.
polyline_rngs_unchecked(shape) ==
    [panic |-> FALSE, rng |-> <<to_bits(shape.a[1]), to_bits(shape.a[2])>>]

polyline_rngs(shape) ==
    IF shape_type(shape) # "Polyline"
    THEN [panic |-> TRUE, rng |-> NoRange]
    ELSE [panic |-> FALSE, rng |-> <<to_bits(shape.a[1]), to_bits(shape.a[2])>>]

trimesh_rngs(shape) ==
    IF shape_type(shape) # "TriMesh"
    THEN [panic |-> TRUE, rng |-> NoRange]
    ELSE [panic |-> FALSE, rng |-> <<to_bits(shape.a[1]), to_bits(shape.a[2])>>]

(***************************************************************************)
(* Engine (parry) shapes and GpuShape::from_parry                          *)
(*                                                                         *)
(* An engine shape is [kind, f, verts]: its TypedShape variant, its f32    *)
(* parameters in field order, and its vertices (for a HeightField, the     *)
(* vertices that to_polyline / to_trimesh return).  Points are opaque to   *)
(* the code, which only copies them.                                       *)
(***************************************************************************)
\* Vec::extend_from_slice put at the wrong end.
extend_front(vec, slice) == slice \o vec

\* Vec::extend_from_slice
extend_from_slice(vec, slice) == vec \o slice

\* The range arm with base_id never advanced past the start of the pool.
append_range_base0(vertices, slice) ==
    LET extended == extend_from_slice(vertices, slice)
    IN [vertices |-> extended, rng |-> <<U32(0), U32(Len(extended))>>]

\* The pattern shared by the Polyline / TriMesh / HeightField arms:
\*   let base_id = buffers.vertices.len();
\*   buffers.vertices.extend_from_slice(..);
\*   [base_id as u32, buffers.vertices.len() as u32]
append_range(vertices, slice) ==
    LET base_id == Len(vertices)
        extended == extend_from_slice(vertices, slice)
    IN [vertices |-> extended, rng |-> <<U32(base_id), U32(Len(extended))>>]

Some(shape, vertices) == [some |-> TRUE, shape |-> shape, vertices |-> vertices]

\* The zeroed record (GpuShape is bytemuck::Zeroable); stands for "no shape".
ZeroShape == [a |-> <<F0, F0, F0, F0>>, b |-> <<F0, F0, F0, F0>>]

None(vertices) == [some |-> FALSE, shape |-> ZeroShape, vertices |-> vertices]

\* A from_parry that lets the fall-through arm encode a ball.
from_parry_total(shape, vertices) ==
    LET k == shape.kind
        f == shape.f
    IN CASE k = "Ball" -> Some(ball(f[1]), vertices)
         [] k = "Cuboid" -> Some(cuboid(f), vertices)
         [] k = "Capsule" ->
              Some(capsule(SubSeq(f, 1, dim), SubSeq(f, dim + 1, 2 * dim), f[2 * dim + 1]),
                   vertices)
         [] k = "Polyline" ->
              LET r == append_range(vertices, shape.verts)
              IN Some(polyline(r.rng), r.vertices)
         [] k = "TriMesh" ->
              LET r == append_range(vertices, shape.verts)
              IN Some(trimesh(r.rng), r.vertices)
         [] k = "HeightField" ->
              LET r == append_range(vertices, shape.verts)
              IN Some(IF dim = 2 THEN polyline(r.rng) ELSE trimesh(r.rng), r.vertices)
         [] k = "Cone" /\ dim = 3 -> Some(cone(f[1], f[2]), vertices)
         [] k = "Cylinder" /\ dim = 3 -> Some(cylinder(f[1], f[2]), vertices)
         [] OTHER -> Some(ball(F0), vertices)

\* Returns the Option<GpuShape> and the ShapeBuffers' vertices after the call.
from_parry(shape, vertices) ==
    LET k == shape.kind
        f == shape.f
    IN CASE k = "Ball" -> Some(ball(f[1]), vertices)
         [] k = "Cuboid" -> Some(cuboid(f), vertices)
         [] k = "Capsule" ->
              Some(capsule(SubSeq(f, 1, dim), SubSeq(f, dim + 1, 2 * dim), f[2 * dim + 1]),
                   vertices)
         [] k = "Polyline" ->
              LET r == append_range(vertices, shape.verts)
              IN Some(polyline(r.rng), r.vertices)
         [] k = "TriMesh" ->
              LET r == append_range(vertices, shape.verts)
              IN Some(trimesh(r.rng), r.vertices)
         [] k = "HeightField" ->
              LET r == append_range(vertices, shape.verts)
              IN Some(IF dim = 2 THEN polyline(r.rng) ELSE trimesh(r.rng), r.vertices)
         [] k = "Cone" /\ dim = 3 -> Some(cone(f[1], f[2]), vertices)
         [] k = "Cylinder" /\ dim = 3 -> Some(cylinder(f[1], f[2]), vertices)
         [] OTHER -> None(vertices)

(***************************************************************************)
(* Inputs                                                                  *)
(***************************************************************************)
MaxVerts == 3     \* most vertices of one engine shape
MaxCalls == 3     \* most from_parry calls on one pool
MaxBodies == 2    \* most coupling entries / body descriptors
MaxLaunches == 2  \* most calls of WgIntegrate::launch on one set

\* 32-bit patterns: the tags, 7 and 8, 2^24 + 1, 1.0f32, 2.0f32, a signalling
\* NaN, a quiet NaN, -0.0 and 0xFFFFFFFF.
U32Samples ==
    {<<0, n>> : n \in 0..8}
        \cup {<<256, 1>>, <<16256, 0>>, <<16384, 0>>, <<32640, 1>>, <<32704, 0>>,
              <<32768, 0>>, <<65535, 65535>>}

\* f32 parameters: 2.0, the subnormal whose bits are 5, and a NaN.
F32Params == {from_bits(<<16384, 0>>), from_bits(<<0, 5>>), from_bits(<<65535, 65535>>)}

F2 == from_bits(<<16384, 0>>)

\* The vertices of the engine shape numbered k having n vertices.
Verts(k, n) == [i \in 1..n |-> <<k, i>>]

VertexKinds == {"Polyline", "TriMesh", "HeightField"}

\* Engine shape kinds with a GPU encoding in this build.
EncodedKinds ==
    {"Ball", "Cuboid", "Capsule"} \cup VertexKinds
        \cup (IF dim = 3 THEN {"Cone", "Cylinder"} ELSE {})

\* Engine shape kinds without one.
OtherKinds ==
    {"Segment", "Triangle", "HalfSpace", "Compound", "RoundCuboid", "Custom"}
        \cup (IF dim = 3 THEN {"ConvexPolyhedron", "RoundCylinder"} ELSE {"ConvexPolygon"})

\* The f32 parameters of an engine shape of kind k, all equal to p.
ParamsOf(k, p) ==
    CASE k = "Ball" -> <<p>>
      [] k = "Cuboid" -> [i \in 1..dim |-> p]
      [] k = "Capsule" -> [i \in 1..(2 * dim + 1) |-> p]
      [] k \in {"Cone", "Cylinder"} -> <<p, p>>
      [] OTHER -> <<>>

\* Engine shape number id of kind k with n vertices.
EngineShape(k, id, n) ==
    [kind |-> k, f |-> ParamsOf(k, F2), verts |-> IF k \in VertexKinds THEN Verts(id, n) ELSE <<>>]

\* The vertex counts an engine shape of kind k can have: a TriMesh has at
\* least one triangle; a Polyline or a HeightField may yield no vertex.
VertexCounts(k) ==
    CASE k = "TriMesh" -> 1..MaxVerts
      [] k \in {"Polyline", "HeightField"} -> 0..MaxVerts
      [] OTHER -> {0}

(***************************************************************************)
(* Specification SpecShape: the constructors and decoders of GpuShape,     *)
(* applied to sampled parameters.                                          *)
(***************************************************************************)
\* Stands for "no GpuBodySet was returned".
NoSet == [len |-> 0]

\* Stands for "no error was returned".
NoError == [from |-> "none", at |-> 0]

\* Stands for "launch was not called".
NoLaunch == [called |-> FALSE, error |-> NoError]

NoOut == [fn |-> "none", ty |-> "none", panic |-> FALSE, rng |-> NoRange]

\* A record is made once per behaviour, then decoded any number of times.
Fresh == ctor.kind = "none"

Made(kind, rng, shape) ==
    /\ rec' = shape
    /\ ctor' = [kind |-> kind, rng |-> rng]
    /\ out' = NoOut
    /\ UNCHANGED <<dim, poolVars, bodyVars>>

IdleShape ==
    /\ rec = ZeroShape
    /\ ctor = [kind |-> "none", rng |-> NoRange]
    /\ out = NoOut

IdlePool ==
    /\ buffers = <<>>
    /\ calls = <<>>

IdleBody ==
    /\ pc = "idle"
    /\ coupling = <<>>
    /\ shape_buffers = <<>>
    /\ gpu_bodies = <<>>
    /\ pt_collider_ids = <<>>
    /\ uploads = <<>>
    /\ set = NoSet
    /\ via = "none"
    /\ error = NoError
    /\ dispatches = <<>>
    /\ launch_result = NoLaunch

InitShape ==
    /\ dim \in {2, 3}
    /\ IdleShape
    /\ IdlePool
    /\ IdleBody

MkBall ==
    /\ Fresh
    /\ \E radius \in F32Params : Made("ball", NoRange, ball(radius))

MkCuboid ==
    /\ Fresh
    /\ \E half_extents \in [1..dim -> F32Params] :
           Made("cuboid", NoRange, cuboid(half_extents))

MkCapsule ==
    /\ Fresh
    /\ \E a \in [1..dim -> F32Params], b \in [1..dim -> F32Params], radius \in F32Params :
        Made("capsule", NoRange, capsule(a, b, radius))

MkPolyline ==
    /\ Fresh
    /\ \E start \in U32Samples, end \in U32Samples :
        Made("polyline", <<start, end>>, polyline(<<start, end>>))

MkTrimesh ==
    /\ Fresh
    /\ \E start \in U32Samples, end \in U32Samples :
        Made("trimesh", <<start, end>>, trimesh(<<start, end>>))

MkCone ==
    /\ Fresh
    /\ dim = 3
    /\ \E half_height \in F32Params, radius \in F32Params :
           Made("cone", NoRange, cone(half_height, radius))

MkCylinder ==
    /\ Fresh
    /\ dim = 3
    /\ \E half_height \in F32Params, radius \in F32Params :
           Made("cylinder", NoRange, cylinder(half_height, radius))

\* from_parry on an engine shape of an encoded kind and a pool of n vertices.
MkFromParry ==
    /\ Fresh
    /\ \E k \in EncodedKinds, p \in F32Params, n \in 0..MaxVerts, m \in 0..MaxVerts :
        LET shape == [kind |-> k, f |-> ParamsOf(k, p),
                      verts |-> IF k \in VertexKinds THEN Verts(2, m) ELSE <<>>]
            r == from_parry(shape, Verts(1, n))
        IN /\ m \in VertexCounts(k)
           /\ r.some
           /\ Made("from_parry", NoRange, r.shape)

\* Any 32 bytes cast to a GpuShape (it is bytemuck::Pod): a record no
\* constructor made.
MkRaw ==
    /\ Fresh
    /\ \E x \in U32Samples, w \in U32Samples :
        Made("raw", NoRange,
             [a |-> <<from_bits(x), from_bits(x), F0, from_bits(w)>>, b |-> <<F0, F0, F0, F0>>])

CallShapeType ==
    /\ ctor.kind # "none"
    /\ LET ty == shape_type(rec)
       IN out' = [fn |-> "shape_type", ty |-> ty, panic |-> (ty = "PANIC"), rng |-> NoRange]
    /\ UNCHANGED <<dim, rec, ctor, poolVars, bodyVars>>

CallPolylineRngs ==
    /\ ctor.kind # "none"
    /\ LET r == polyline_rngs(rec)
       IN out' = [fn |-> "polyline_rngs", ty |-> "none", panic |-> r.panic, rng |-> r.rng]
    /\ UNCHANGED <<dim, rec, ctor, poolVars, bodyVars>>

CallTrimeshRngs ==
    /\ ctor.kind # "none"
    /\ LET r == trimesh_rngs(rec)
       IN out' = [fn |-> "trimesh_rngs", ty |-> "none", panic |-> r.panic, rng |-> r.rng]
    /\ UNCHANGED <<dim, rec, ctor, poolVars, bodyVars>>

NextShape ==
    \/ MkBall
    \/ MkCuboid
    \/ MkCapsule
    \/ MkPolyline
    \/ MkTrimesh
    \/ MkCone
    \/ MkCylinder
    \/ MkFromParry
    \/ MkRaw
    \/ CallShapeType
    \/ CallPolylineRngs
    \/ CallTrimeshRngs

SpecShape == InitShape /\ [][NextShape]_vars

(***************************************************************************)
(* Claims about the constructors and decoders                              *)
(***************************************************************************)
CtorKinds == {"ball", "cuboid", "capsule", "cone", "cylinder", "polyline", "trimesh"}

\* The tag and the ShapeType each constructor is to produce.
ExpectedTag(kind) ==
    CASE kind = "ball" -> <<0, 0>>
      [] kind = "cuboid" -> <<0, 1>>
      [] kind = "capsule" -> <<0, 2>>
      [] kind = "cone" -> <<0, 3>>
      [] kind = "cylinder" -> <<0, 4>>
      [] kind = "polyline" -> <<0, 5>>
      [] kind = "trimesh" -> <<0, 6>>

ExpectedType(kind) ==
    CASE kind = "ball" -> "Ball"
      [] kind = "cuboid" -> "Cuboid"
      [] kind = "capsule" -> "Capsule"
      [] kind = "cone" -> "Cone"
      [] kind = "cylinder" -> "Cylinder"
      [] kind = "polyline" -> "Polyline"
      [] kind = "trimesh" -> "TriMesh"

\* One record made by each constructor of the build.
SampleOf(kind) ==
    CASE kind = "ball" -> ball(F2)
      [] kind = "cuboid" -> cuboid([i \in 1..dim |-> F2])
      [] kind = "capsule" -> capsule([i \in 1..dim |-> F2], [i \in 1..dim |-> F2], F2)
      [] kind = "cone" -> cone(F2, F2)
      [] kind = "cylinder" -> cylinder(F2, F2)
      [] kind = "polyline" -> polyline(NoRange)
      [] kind = "trimesh" -> trimesh(NoRange)

BuildCtorKinds == IF dim = 3 THEN CtorKinds ELSE CtorKinds \ {"cone", "cylinder"}

\* C1: a record made by a constructor carries the tag of that constructor
\* in a.w, whatever the parameters; shape_type decodes it as that
\* constructor's kind; and no other constructor of the build produces the
\* same tag.
C1_TagRoundTrip ==
    ctor.kind \in CtorKinds =>
        /\ to_bits(rec.a[4]) = ExpectedTag(ctor.kind)
        /\ shape_type(rec) = ExpectedType(ctor.kind)
        /\ out.fn = "shape_type" => out.ty = ExpectedType(ctor.kind) /\ ~out.panic
        /\ \A other \in BuildCtorKinds \ {ctor.kind} :
               to_bits(SampleOf(other).a[4]) # to_bits(rec.a[4])

\* C1 witness: shape_type was called on a cuboid whose half-extents have the
\* bit pattern 5 (the Polyline tag) and answered Cuboid.
C1_Witness ==
    /\ ctor.kind = "cuboid"
    /\ to_bits(rec.a[1]) = <<0, 5>>
    /\ out.fn = "shape_type"
    /\ out.ty = "Cuboid"

\* C2: polyline_rngs(polyline([start, end])) = [start, end] and
\* trimesh_rngs(trimesh([start, end])) = [start, end], bit for bit, for every
\* sampled pair of 32-bit patterns.
C2_RangeRoundTrip ==
    /\ ctor.kind = "polyline" /\ out.fn = "polyline_rngs" => ~out.panic /\ out.rng = ctor.rng
    /\ ctor.kind = "trimesh" /\ out.fn = "trimesh_rngs" => ~out.panic /\ out.rng = ctor.rng
    /\ ctor.kind = "polyline" => polyline_rngs(rec) = [panic |-> FALSE, rng |-> ctor.rng]
    /\ ctor.kind = "trimesh" => trimesh_rngs(rec) = [panic |-> FALSE, rng |-> ctor.rng]

\* C2 witness: the range [0x7F800001, 0xFFFFFFFF] (two NaN patterns) came
\* back from trimesh_rngs.
C2_Witness ==
    /\ ctor.kind = "trimesh"
    /\ ctor.rng = <<<<32640, 1>>, <<65535, 65535>>>>
    /\ out.fn = "trimesh_rngs"
    /\ out.rng = ctor.rng

\* C8: polyline_rngs panics on every record whose tag is not Polyline, and
\* trimesh_rngs on every record whose tag is not TriMesh.
C8_RangeDecoderAborts ==
    /\ out.fn = "polyline_rngs" /\ to_bits(rec.a[4]) # <<0, 5>> => out.panic
    /\ out.fn = "trimesh_rngs" /\ to_bits(rec.a[4]) # <<0, 6>> => out.panic

\* C8 witness: polyline_rngs was called on a ball and panicked.
C8_Witness ==
    /\ ctor.kind = "ball"
    /\ out.fn = "polyline_rngs"
    /\ out.panic

\* The tags shape_type knows in this build.
KnownTags == {<<0, 0>>, <<0, 1>>, <<0, 2>>, <<0, 5>>, <<0, 6>>}
                 \cup (IF dim = 3 THEN {<<0, 3>>, <<0, 4>>} ELSE {})

\* C9: shape_type panics exactly when the bits of a.w are not a known tag of
\* the build, and never on a record made by a constructor or by from_parry.
C9_ShapeTypeAborts ==
    /\ out.fn = "shape_type" => (out.panic <=> to_bits(rec.a[4]) \notin KnownTags)
    /\ ctor.kind \in CtorKinds \cup {"from_parry"} => shape_type(rec) # "PANIC"

\* C9 witness: shape_type panicked on a raw record tagged 3 in a 2-D build.
C9_Witness ==
    /\ dim = 2
    /\ ctor.kind = "raw"
    /\ to_bits(rec.a[4]) = <<0, 3>>
    /\ out.fn = "shape_type"
    /\ out.panic

(***************************************************************************)
(* Specification SpecPool: a sequence of from_parry calls on one shared    *)
(* ShapeBuffers.                                                           *)
(***************************************************************************)
\* The kinds the pool specification converts: the vertex-carrying ones, some
\* primitives, and one without a GPU encoding.
PoolKinds ==
    VertexKinds \cup {"Ball", "Capsule", "Compound"} \cup (IF dim = 3 THEN {"Cylinder"} ELSE {})

InitPool ==
    /\ dim \in {2, 3}
    /\ IdleShape
    /\ IdlePool
    /\ IdleBody

\* The range a returned shape carries, decoded with the decoder of its type.
RangeOf(shape) ==
    LET r == IF shape_type(shape) = "Polyline" THEN polyline_rngs(shape) ELSE trimesh_rngs(shape)
    IN [panic |-> r.panic, start |-> U32Val(r.rng[1]), end |-> U32Val(r.rng[2])]

\* One call GpuShape::from_parry(shape, &mut buffers).  calls keeps, for call
\* number k: the kind of the engine shape and its number n of vertices (they
\* are Verts(k, n)), whether Some was returned, the range decoded from the
\* returned shape, and whether the call left the pool as it was.
FromParryCall ==
    /\ Len(calls) < MaxCalls
    /\ \E k \in PoolKinds :
           \E n \in VertexCounts(k) :
               LET shape == EngineShape(k, Len(calls) + 1, n)
                   r == from_parry(shape, buffers)
               IN /\ buffers' = r.vertices
                  /\ calls' = Append(calls, [kind |-> k, n |-> n, some |-> r.some,
                                             rng |-> RangeOf(r.shape),
                                             unchanged |-> r.vertices = buffers])
    /\ UNCHANGED <<dim, shapeVars, bodyVars>>

NextPool == FromParryCall

SpecPool == InitPool /\ [][NextPool]_vars

\* The calls that converted a vertex-carrying shape, in call order.
IsVertexCall(c) == c.kind \in VertexKinds

VertexCalls == SelectSeq(calls, IsVertexCall)

\* C3 as stated: the ranges of the vertex-carrying shapes are pairwise
\* non-overlapping, strictly ordered by insertion order (no two of them are
\* the same range, an earlier one sorts before a later one), and each ends
\* where the next starts.
C3_StrictlyOrdered ==
    LET vc == VertexCalls
        R(i) == vc[i].rng
    IN /\ \A i \in 1..Len(vc), j \in 1..Len(vc) :
              i < j =>
                  /\ R(i).end <= R(j).start
                  /\ \/ R(i).start < R(j).start
                     \/ R(i).start = R(j).start /\ R(i).end < R(j).end
       /\ \A i \in 1..(Len(vc) - 1) : R(i).end = R(i + 1).start

\* C3 amended: the ranges are pairwise non-overlapping and ordered by
\* insertion order (start_i <= end_i <= start_j <= end_j for i before j),
\* strictly (start_i < start_j) when shape i has at least one vertex; each
\* ends where the next starts; a conversion of a primitive shape leaves the
\* pool unchanged; a 3-vertex polyline then a 2-vertex polyline into an empty
\* pool get [0,3) and [3,5) and leave 5 vertices in the pool.
C3_Ordered ==
    LET vc == VertexCalls
        R(i) == vc[i].rng
    IN /\ \A i \in 1..Len(vc) : ~R(i).panic /\ R(i).start <= R(i).end
       /\ \A i \in 1..Len(vc), j \in 1..Len(vc) :
              i < j =>
                  /\ R(i).end <= R(j).start
                  /\ R(i).start <= R(j).start
                  /\ vc[i].n > 0 => R(i).start < R(j).start
       /\ \A i \in 1..(Len(vc) - 1) : R(i).end = R(i + 1).start
       /\ \A i \in 1..Len(calls) : ~IsVertexCall(calls[i]) => calls[i].unchanged
       /\ (/\ Len(calls) = 2
           /\ calls[1].kind = "Polyline" /\ calls[1].n = 3
           /\ calls[2].kind = "Polyline" /\ calls[2].n = 2)
              => /\ calls[1].rng = [panic |-> FALSE, start |-> 0, end |-> 3]
                 /\ calls[2].rng = [panic |-> FALSE, start |-> 3, end |-> 5]
                 /\ Len(buffers) = 5

\* C3 witness: a 3-vertex polyline, a ball, then a 2-vertex polyline were
\* converted into one pool.
C3_Witness ==
    /\ Len(calls) = 3
    /\ calls[1].kind = "Polyline" /\ calls[1].n = 3
    /\ calls[2].kind = "Ball"
    /\ calls[3].kind = "Polyline" /\ calls[3].n = 2
    /\ calls[3].rng.start = 3
    /\ calls[3].rng.end = 5

\* C4: every range returned so far lies within the pool, is as long as the
\* converted shape has vertices, and the pool holds that shape's vertices,
\* in order, at the range; this stays so after every later append.
C4_RangesValid ==
    \A i \in 1..Len(calls) :
        IsVertexCall(calls[i]) =>
            LET r == calls[i].rng
            IN /\ calls[i].some
               /\ ~r.panic
               /\ 0 <= r.start /\ r.start <= r.end /\ r.end <= Len(buffers)
               /\ r.end - r.start = calls[i].n
               /\ SubSeq(buffers, r.start + 1, r.end) = Verts(i, calls[i].n)

\* C4 witness: a 2-vertex trimesh was converted first and two more
\* vertex-carrying shapes with vertices were appended after it.
C4_Witness ==
    /\ Len(calls) = 3
    /\ calls[1].kind = "TriMesh" /\ calls[1].n = 2
    /\ IsVertexCall(calls[2]) /\ calls[2].n > 0
    /\ IsVertexCall(calls[3]) /\ calls[3].n > 0
    /\ SubSeq(buffers, 1, 2) = Verts(1, 2)

(***************************************************************************)
(* Engine (rapier) state read by GpuBodySet::from_rapier                   *)
(*                                                                         *)
(* Lengths, velocities and inertia are integers (exact arithmetic); the    *)
(* inverse mass, which the code only copies, is an f32.  A rotation is a   *)
(* number of quarter turns about the last axis, so that the inverse        *)
(* inertia matrix R * diag * R^T stays diagonal.                           *)
(***************************************************************************)
Vec(x, y) == IF dim = 2 THEN <<x, y>> ELSE <<x, y, 0>>

AngVec(w) == IF dim = 2 THEN w ELSE <<0, 0, w>>

\* A rotation by q quarter turns applied to a vector.
Rotate(q, v) ==
    LET x == v[1]
        y == v[2]
        r == CASE q % 4 = 0 -> <<x, y>>
               [] q % 4 = 1 -> <<0 - y, x>>
               [] q % 4 = 2 -> <<0 - x, 0 - y>>
               [] OTHER -> <<y, 0 - x>>
    IN IF dim = 2 THEN r ELSE <<r[1], r[2], v[3]>>

\* Isometry * Point
Transform(m, pt) == [i \in 1..dim |-> Rotate(m.rot, pt)[i] + m.tr[i]]

\* MassProperties::zero()
MassPropertiesZero ==
    [local_com |-> Vec(0, 0), inv_mass |-> F0,
     inv_principal_inertia_sqrt |-> IF dim = 2 THEN 0 ELSE <<0, 0, 0>>,
     principal_inertia_local_frame |-> 0]

\* MassProperties::transform_by
transform_by(props, m) ==
    [props EXCEPT !.local_com = Transform(m, props.local_com),
                  !.principal_inertia_local_frame =
                      IF dim = 3 THEN (m.rot + props.principal_inertia_local_frame) % 4 ELSE @]

\* MassProperties::reconstruct_inverse_inertia_matrix (dim3)
reconstruct_inverse_inertia_matrix(props) ==
    LET d == props.inv_principal_inertia_sqrt
        sq == [i \in 1..3 |-> d[i] * d[i]]
        odd == props.principal_inertia_local_frame % 2 = 1
    IN <<<<IF odd THEN sq[2] ELSE sq[1], 0, 0>>,
         <<0, IF odd THEN sq[1] ELSE sq[2], 0>>,
         <<0, 0, sq[3]>>>>

\* impl From<MassProperties> for GpuMassProperties
GpuMassProperties(props) ==
    [inv_inertia |-> IF dim = 2
                     THEN props.inv_principal_inertia_sqrt * props.inv_principal_inertia_sqrt
                     ELSE reconstruct_inverse_inertia_matrix(props),
     inv_mass |-> [i \in 1..dim |-> props.inv_mass],
     com |-> props.local_com]

\* 0.5f32, 1.0f32
FHalf == from_bits(<<16128, 0>>)
F1 == from_bits(<<16256, 0>>)

IdentityIsometry == [rot |-> 0, tr |-> Vec(0, 0)]

\* impl Default for GpuMassProperties
GpuMassPropertiesDefault ==
    [inv_inertia |-> IF dim = 2 THEN 1 ELSE <<<<1, 0, 0>>, <<0, 1, 0>>, <<0, 0, 1>>>>,
     inv_mass |-> [i \in 1..dim |-> F1],
     com |-> Vec(0, 0)]

\* GpuSim: a similarity, the isometry with a unit scale factor.
GpuSim(position) == [isometry |-> position, scale |-> 1]

\* impl Default for BodyDesc
BodyDescDefault ==
    [local_mprops |-> GpuMassPropertiesDefault,
     mprops |-> GpuMassPropertiesDefault,
     vel |-> [linear |-> Vec(0, 0), angular |-> AngVec(0)],
     pose |-> GpuSim(IdentityIsometry),
     shape |-> cuboid([i \in 1..dim |-> FHalf])]

\* The rigid bodies of the engine: one dynamic, one kinematic, one fixed,
\* each with non-zero local mass properties and a non-identity pose.
RigidBody(body_type, inv_mass) ==
    [body_type |-> body_type,
     linvel |-> Vec(1, 2),
     angvel |-> AngVec(3),
     position |-> [rot |-> 1, tr |-> Vec(2, 1)],
     local_mprops |->
         [local_com |-> Vec(1, 0), inv_mass |-> inv_mass,
          inv_principal_inertia_sqrt |-> IF dim = 2 THEN 2 ELSE <<1, 2, 3>>,
          principal_inertia_local_frame |-> 0]]

BodyHandles == {"dynamic", "kinematic", "fixed"}

RigidBodySet(handle) ==
    CASE handle = "dynamic" -> RigidBody("Dynamic", FHalf)
      [] handle = "kinematic" -> RigidBody("KinematicVelocityBased", FHalf)
      [] handle = "fixed" -> RigidBody("Fixed", F2)

\* RigidBody::is_dynamic
is_dynamic(rb) == rb.body_type = "Dynamic"

\* The colliders of the engine, by handle: one per engine shape kind.
ColliderKinds ==
    <<"Ball", "Cuboid", "Capsule", "Polyline", "TriMesh", "HeightField", "Segment",
      "Compound", "Cone", "Cylinder">>

ColliderHandles == 1..(IF dim = 3 THEN 10 ELSE 8)

\* The polyline has 2 vertices, the trimesh MaxVerts, the height field none.
ColliderSet(handle) ==
    LET k == ColliderKinds[handle]
        n == CASE k = "Polyline" -> 2
               [] k = "TriMesh" -> MaxVerts
               [] OTHER -> 0
    IN [shape |-> EngineShape(k, handle, n)]

\* The coupling entries a caller passes: every body and mode with the ball,
\* and every collider with the dynamic body, two ways.
CouplingEntries ==
    {[body |-> b, collider |-> 1, mode |-> m] : b \in BodyHandles, m \in {"OneWay", "TwoWays"}}
        \cup {[body |-> "dynamic", collider |-> c, mode |-> "TwoWays"] : c \in ColliderHandles}

(***************************************************************************)
(* GpuBodySet::new and GpuBodySet::from_rapier                             *)
(***************************************************************************)
\* A transposition that puts each mass-properties column under the other's name.
transpose_swapped(bodies) ==
    [local_mprops |-> [i \in 1..Len(bodies) |-> bodies[i].mprops],
     mprops |-> [i \in 1..Len(bodies) |-> bodies[i].local_mprops],
     vels |-> [i \in 1..Len(bodies) |-> bodies[i].vel],
     poses |-> [i \in 1..Len(bodies) |-> bodies[i].pose],
     shapes_data |-> [i \in 1..Len(bodies) |-> bodies[i].shape]]

\* bodies.iter().copied().map(..).collect(): one column per BodyDesc field.
transpose(bodies) ==
    [local_mprops |-> [i \in 1..Len(bodies) |-> bodies[i].local_mprops],
     mprops |-> [i \in 1..Len(bodies) |-> bodies[i].mprops],
     vels |-> [i \in 1..Len(bodies) |-> bodies[i].vel],
     poses |-> [i \in 1..Len(bodies) |-> bodies[i].pose],
     shapes_data |-> [i \in 1..Len(bodies) |-> bodies[i].shape]]

\* The uploads of new, in the order the struct literal evaluates them.
UploadOrder ==
    <<"mprops", "local_mprops", "vels", "poses", "shapes", "shapes_local_vertex_buffers",
      "shapes_vertex_buffers", "shapes_vertex_collider_id">>

\* The data new hands to each GpuTensor::vector / vector_encased call.
UploadData(bodies, ids, vertices) ==
    LET cols == transpose(bodies)
    IN [mprops |-> cols.mprops,
        local_mprops |-> cols.local_mprops,
        vels |-> cols.vels,
        poses |-> cols.poses,
        shapes |-> cols.shapes_data,
        shapes_local_vertex_buffers |-> vertices,
        shapes_vertex_buffers |-> vertices,
        shapes_vertex_collider_id |-> ids]

\* The B::Error the backend answers when upload number k fails.
UploadError(k) == [from |-> "GpuTensor::vector", at |-> k]

\* A new that goes on with the remaining uploads after one failed.
new_keep_going(bodies, ids, vertices, fail) ==
    LET data == UploadData(bodies, ids, vertices)
        done == SelectSeq([k \in 1..Len(UploadOrder) |-> k], LAMBDA k : k # fail)
    IN [ok |-> fail = 0,
        error |-> IF fail = 0 THEN NoError ELSE UploadError(fail),
        uploads |-> [j \in 1..Len(done) |->
                        [name |-> UploadOrder[done[j]], data |-> data[UploadOrder[done[j]]]]],
        set |-> IF fail = 0
                THEN [len |-> U32Val(U32(Len(bodies))),
                      mprops |-> data.mprops,
                      local_mprops |-> data.local_mprops,
                      vels |-> data.vels,
                      poses |-> data.poses,
                      shapes |-> data.shapes,
                      shapes_local_vertex_buffers |-> data.shapes_local_vertex_buffers,
                      shapes_vertex_buffers |-> data.shapes_vertex_buffers,
                      shapes_vertex_collider_id |-> data.shapes_vertex_collider_id,
                      shapes_data |-> transpose(bodies).shapes_data]
                ELSE NoSet]

\* GpuBodySet::new.  fail = 0: every upload succeeds; fail = k > 0: upload k
\* returns the backend's error, which `?` returns to the caller.  A tensor is
\* the sequence uploaded to it.
new(bodies, ids, vertices, fail) ==
    LET data == UploadData(bodies, ids, vertices)
        n == IF fail = 0 THEN Len(UploadOrder) ELSE fail - 1
    IN [ok |-> fail = 0,
        error |-> IF fail = 0 THEN NoError ELSE UploadError(fail),
        uploads |-> [k \in 1..n |-> [name |-> UploadOrder[k], data |-> data[UploadOrder[k]]]],
        set |-> IF fail = 0
                THEN [len |-> U32Val(U32(Len(bodies))),
                      mprops |-> data.mprops,
                      local_mprops |-> data.local_mprops,
                      vels |-> data.vels,
                      poses |-> data.poses,
                      shapes |-> data.shapes,
                      shapes_local_vertex_buffers |-> data.shapes_local_vertex_buffers,
                      shapes_vertex_buffers |-> data.shapes_vertex_buffers,
                      shapes_vertex_collider_id |-> data.shapes_vertex_collider_id,
                      shapes_data |-> transpose(bodies).shapes_data]
                ELSE NoSet]

\* GpuBodySet::is_empty, GpuBodySet::len
is_empty(self) == self.len = 0

len(self) == self.len

\* A coupling test that looks at the mode only.
two_ways_coupling_mode_only(rb, entry) == entry.mode = "TwoWays"

\* let two_ways_coupling = rb.is_dynamic() && coupling.mode == BodyCoupling::TwoWays;
two_ways_coupling(rb, entry) == is_dynamic(rb) /\ entry.mode = "TwoWays"

\* The BodyDesc from_rapier builds for one coupling entry and its shape.
BodyDesc(rb, entry, shape) ==
    LET zero_mprops == MassPropertiesZero
    IN [vel |-> [linear |-> rb.linvel, angular |-> rb.angvel],
        pose |-> GpuSim(rb.position),
        shape |-> shape,
        local_mprops |-> IF two_ways_coupling(rb, entry)
                         THEN GpuMassProperties(rb.local_mprops)
                         ELSE GpuMassProperties(zero_mprops),
        mprops |-> IF two_ways_coupling(rb, entry)
                   THEN GpuMassProperties(transform_by(rb.local_mprops, rb.position))
                   ELSE GpuMassProperties(zero_mprops)]

\* An owner-id loop that pushes the 1-based position of the entry.
push_collider_ids_one_based(ids, co_id, prev_len, new_len) ==
    ids \o [i \in 1..(new_len - prev_len) |-> U32(co_id + 1)]

\* for _ in prev_len..shape_buffers.vertices.len() { pt_collider_ids.push(co_id as u32); }
push_collider_ids(ids, co_id, prev_len, new_len) ==
    ids \o [i \in 1..(new_len - prev_len) |-> U32(co_id)]

InitBody ==
    /\ dim \in {2, 3}
    /\ IdleShape
    /\ IdlePool
    /\ IdleBody

\* from_rapier is called: its three locals are created empty.
FromRapierEnter ==
    /\ pc = "idle"
    /\ pc' = "loop"
    /\ via' = "from_rapier"
    /\ shape_buffers' = <<>>
    /\ gpu_bodies' = <<>>
    /\ pt_collider_ids' = <<>>
    /\ UNCHANGED <<dim, shapeVars, poolVars, coupling, uploads, set, error, dispatches,
                   launch_result>>

\* One iteration of the loop over the coupling entries; co_id is the
\* 0-based position of the entry.  An unsupported shape panics.
FromRapierIterate ==
    /\ pc = "loop"
    /\ Len(coupling) < MaxBodies
    /\ \E entry \in CouplingEntries :
           LET co_id == Len(coupling)
               co == ColliderSet(entry.collider)
               rb == RigidBodySet(entry.body)
               prev_len == Len(shape_buffers)
               r == from_parry(co.shape, shape_buffers)
           IN /\ coupling' = Append(coupling, entry)
              /\ shape_buffers' = r.vertices
              /\ IF r.some
                 THEN /\ pt_collider_ids' =
                             push_collider_ids(pt_collider_ids, co_id, prev_len,
                                               Len(r.vertices))
                      /\ gpu_bodies' = Append(gpu_bodies, BodyDesc(rb, entry, r.shape))
                      /\ pc' = "loop"
                 ELSE /\ pc' = "panic"
                      /\ UNCHANGED <<pt_collider_ids, gpu_bodies>>
    /\ UNCHANGED <<dim, shapeVars, poolVars, uploads, set, via, error, dispatches,
                   launch_result>>

\* The loop is over: Self::new(backend, &gpu_bodies, &pt_collider_ids, &shape_buffers)
FromRapierNew ==
    /\ pc = "loop"
    /\ \E fail \in 0..Len(UploadOrder) :
           LET r == new(gpu_bodies, pt_collider_ids, shape_buffers, fail)
           IN /\ uploads' = r.uploads
              /\ set' = r.set
              /\ error' = r.error
              /\ pc' = IF r.ok THEN "done" ELSE "err"
    /\ UNCHANGED <<dim, shapeVars, poolVars, coupling, shape_buffers, gpu_bodies,
                   pt_collider_ids, via, dispatches, launch_result>>

\* Descriptors a caller of new supplies: the default one, and it with a
\* polyline over the vertices [0, 2).
DirectDescs == {BodyDescDefault, [BodyDescDefault EXCEPT !.shape = polyline(<<U32(0), U32(2)>>)]}

DirectBodies == UNION {[1..n -> DirectDescs] : n \in 0..MaxBodies}

\* GpuBodySet::new called with the caller's own descriptors, ids and buffers.
NewDirect ==
    /\ pc = "idle"
    /\ \E bodies \in DirectBodies, ids \in {<<>>, <<U32(0), U32(0)>>},
          vertices \in {<<>>, Verts(1, 2)}, fail \in 0..Len(UploadOrder) :
           LET r == new(bodies, ids, vertices, fail)
           IN /\ gpu_bodies' = bodies
              /\ pt_collider_ids' = ids
              /\ shape_buffers' = vertices
              /\ uploads' = r.uploads
              /\ set' = r.set
              /\ error' = r.error
              /\ pc' = IF r.ok THEN "done" ELSE "err"
    /\ via' = "new"
    /\ UNCHANGED <<dim, shapeVars, poolVars, coupling, dispatches, launch_result>>

(***************************************************************************)
(* WgIntegrate::launch (src/dynamics/integrate.rs)                         *)
(*                                                                         *)
(* A dispatch is what GpuFunction::launch submits to the backend: the grid *)
(* size, the kernel arguments (each a reference to a buffer of the set,    *)
(* named by the field it borrows) and whether the backend accepted it.     *)
(***************************************************************************)
\* The B::Error the backend answers when it refuses a submission.
DispatchError == [from |-> "GpuFunction::launch", at |-> 0]

\* A launch that submits again when the backend refuses, and answers Ok.
launch_retry(bodies, fail) ==
    LET args == [mprops |-> "mprops", local_mprops |-> "local_mprops",
                 poses |-> "poses", vels |-> "vels"]
        d(accepted) == [grid |-> <<len(bodies), 1, 1>>, args |-> args, accepted |-> accepted]
    IN [dispatches |-> IF fail THEN <<d(FALSE), d(TRUE)>> ELSE <<d(TRUE)>>,
        result |-> [called |-> TRUE, error |-> NoError]]

\* WgIntegrate::launch(&self, backend, pass, bodies).  fail: the backend
\* refuses the submission.
launch(bodies, fail) ==
    LET args == [mprops |-> "mprops", local_mprops |-> "local_mprops",
                 poses |-> "poses", vels |-> "vels"]
    IN [dispatches |-> <<[grid |-> <<len(bodies), 1, 1>>, args |-> args, accepted |-> ~fail]>>,
        result |-> [called |-> TRUE, error |-> IF fail THEN DispatchError ELSE NoError]]

\* One call of launch on the set that new returned.
Launch ==
    /\ pc = "done"
    /\ Len(dispatches) < MaxLaunches
    /\ \E fail \in BOOLEAN :
           LET r == launch(set, fail)
           IN /\ dispatches' = dispatches \o r.dispatches
              /\ launch_result' = r.result
    /\ UNCHANGED <<dim, shapeVars, poolVars, pc, coupling, shape_buffers, gpu_bodies,
                   pt_collider_ids, uploads, set, via, error>>

Next ==
    \/ FromRapierEnter
    \/ FromRapierIterate
    \/ FromRapierNew
    \/ NewDirect
    \/ Launch

Spec == InitBody /\ [][Next]_vars

(***************************************************************************)
(* Claims about from_rapier and new                                        *)
(***************************************************************************)
\* The zero mass-property: inverse mass 0 on every axis, inverse inertia 0,
\* centre of mass at the origin.
ZeroGpuMassProperties ==
    [inv_inertia |-> IF dim = 2 THEN 0 ELSE <<<<0, 0, 0>>, <<0, 0, 0>>, <<0, 0, 0>>>>,
     inv_mass |-> [i \in 1..dim |-> F0],
     com |-> Vec(0, 0)]

\* C5: the descriptor of a coupling entry whose body is dynamic and whose
\* mode is TwoWays has the body's local inertial data as local mass
\* properties and that data transformed by the body's pose as world mass
\* properties, the source inverse mass on every axis of both; the descriptor
\* of every other entry has the zero mass-property as both.
C5_CouplingMassProperties ==
    via = "from_rapier" =>
        \A i \in 1..Len(gpu_bodies) :
            LET entry == coupling[i]
                rb == RigidBodySet(entry.body)
                desc == gpu_bodies[i]
            IN IF rb.body_type = "Dynamic" /\ entry.mode = "TwoWays"
               THEN /\ desc.local_mprops = GpuMassProperties(rb.local_mprops)
                    /\ desc.mprops =
                           GpuMassProperties(transform_by(rb.local_mprops, rb.position))
                    /\ desc.local_mprops.com = rb.local_mprops.local_com
                    /\ desc.mprops.com = Transform(rb.position, rb.local_mprops.local_com)
                    /\ \A axis \in 1..dim :
                           /\ desc.local_mprops.inv_mass[axis] = rb.local_mprops.inv_mass
                           /\ desc.mprops.inv_mass[axis] = rb.local_mprops.inv_mass
               ELSE /\ desc.local_mprops = ZeroGpuMassProperties
                    /\ desc.mprops = ZeroGpuMassProperties

\* C5 witness: a kinematic body coupled TwoWays (zero mass-property) and then
\* a dynamic body of inverse mass 0.5 coupled TwoWays were converted, and the
\* set was built.
C5_Witness ==
    /\ pc = "done"
    /\ via = "from_rapier"
    /\ Len(coupling) = 2
    /\ coupling[1] = [body |-> "kinematic", collider |-> 1, mode |-> "TwoWays"]
    /\ coupling[2] = [body |-> "dynamic", collider |-> 1, mode |-> "TwoWays"]
    /\ gpu_bodies[1].mprops = ZeroGpuMassProperties
    /\ gpu_bodies[2].mprops.inv_mass = [i \in 1..dim |-> FHalf]

\* The ShapeType of the record from_parry makes for an engine shape kind.
GpuTypeOf(kind) ==
    IF kind = "HeightField" THEN (IF dim = 2 THEN "Polyline" ELSE "TriMesh") ELSE kind

\* C6: when new succeeds, len() is the number of descriptors, the five
\* columns and shapes_data have len() entries, entry i of each is the field
\* of descriptor i; with from_rapier, descriptor i is that of coupling entry
\* i; is_empty() holds exactly for an empty list.
C6_OrderPreservingTransposition ==
    pc = "done" =>
        /\ len(set) = Len(gpu_bodies)
        /\ is_empty(set) <=> gpu_bodies = <<>>
        /\ Len(set.mprops) = len(set)
        /\ Len(set.local_mprops) = len(set)
        /\ Len(set.vels) = len(set)
        /\ Len(set.poses) = len(set)
        /\ Len(set.shapes) = len(set)
        /\ Len(set.shapes_data) = len(set)
        /\ \A i \in 1..Len(gpu_bodies) :
               /\ set.mprops[i] = gpu_bodies[i].mprops
               /\ set.local_mprops[i] = gpu_bodies[i].local_mprops
               /\ set.vels[i] = gpu_bodies[i].vel
               /\ set.poses[i] = gpu_bodies[i].pose
               /\ set.shapes[i] = gpu_bodies[i].shape
               /\ set.shapes_data[i] = gpu_bodies[i].shape
        /\ via = "from_rapier" =>
               /\ len(set) = Len(coupling)
               /\ \A i \in 1..Len(coupling) :
                      LET rb == RigidBodySet(coupling[i].body)
                          co == ColliderSet(coupling[i].collider)
                      IN /\ set.vels[i] = [linear |-> rb.linvel, angular |-> rb.angvel]
                         /\ set.poses[i].isometry = rb.position
                         /\ shape_type(set.shapes[i]) = GpuTypeOf(co.shape.kind)
                         /\ (set.mprops[i] # ZeroGpuMassProperties)
                                <=> (coupling[i].body = "dynamic"
                                         /\ coupling[i].mode = "TwoWays")

\* C6 witness: from_rapier built a set of two bodies, a trimesh on a dynamic
\* two-ways body (world and local mass properties differ) after a ball on a
\* fixed body.
C6_Witness ==
    /\ pc = "done"
    /\ via = "from_rapier"
    /\ len(set) = 2
    /\ coupling[1].body = "fixed"
    /\ ColliderSet(coupling[2].collider).shape.kind = "TriMesh"
    /\ set.mprops[2] # set.local_mprops[2]
    /\ shape_type(set.shapes[1]) = "Ball"
    /\ shape_type(set.shapes[2]) = "TriMesh"

\* The shapes of a set whose record carries a vertex range.
RangeShapes(self) ==
    {i \in 1..Len(self.shapes_data) : shape_type(self.shapes_data[i]) \in {"Polyline", "TriMesh"}}

\* C7 as stated: after construction through either entry point, the local
\* vertex buffer, the world vertex buffer and the vertex-collider-id buffer
\* have the same length, the final size of the vertex pool, and every range
\* of a Polyline / TriMesh shape of the set lies within them.
C7_VertexBuffersAligned ==
    pc = "done" =>
        /\ Len(set.shapes_local_vertex_buffers) = Len(shape_buffers)
        /\ Len(set.shapes_vertex_buffers) = Len(shape_buffers)
        /\ Len(set.shapes_vertex_collider_id) = Len(shape_buffers)
        /\ \A i \in RangeShapes(set) :
               LET r == RangeOf(set.shapes_data[i])
               IN r.start <= r.end /\ r.end <= Len(set.shapes_vertex_collider_id)

\* C10: from_parry answers None for every engine shape kind without a GPU
\* encoding and leaves the pool as it was; from_rapier, meeting such a
\* collider at any position, panics with nothing uploaded and no set
\* returned, and never goes past such an entry.
C10_UnsupportedShapeAborts ==
    /\ \A k \in OtherKinds :
           from_parry(EngineShape(k, 1, 0), shape_buffers) = None(shape_buffers)
    /\ pc = "panic" =>
           /\ ColliderSet(coupling[Len(coupling)].collider).shape.kind \in OtherKinds
           /\ uploads = <<>>
           /\ set = NoSet
           /\ Len(shape_buffers) = Len(pt_collider_ids)
           /\ Len(gpu_bodies) = Len(coupling) - 1
    /\ pc \in {"loop", "done", "err"} /\ via = "from_rapier" =>
           /\ \A i \in 1..Len(coupling) :
                  ColliderSet(coupling[i].collider).shape.kind \in EncodedKinds
           /\ Len(gpu_bodies) = Len(coupling)

\* C10 witness: from_rapier panicked on a Compound collider at the second
\* position, after a polyline had put vertices in the pool.
C10_Witness ==
    /\ pc = "panic"
    /\ Len(coupling) = 2
    /\ ColliderSet(coupling[1].collider).shape.kind = "Polyline"
    /\ ColliderSet(coupling[2].collider).shape.kind = "Compound"
    /\ Len(shape_buffers) = 2
    /\ uploads = <<>>

\* The names of the buffers uploaded so far, in upload order.
UploadedNames == [k \in 1..Len(uploads) |-> uploads[k].name]

\* C11: when one of the eight uploads of new fails, new returns that
\* upload's backend error and no set, the uploads made are exactly those
\* before the failing one, each made once (no retry, none after the
\* failure); a set is returned only with all eight uploads made, each once,
\* and no error.
C11_UploadFailurePropagates ==
    /\ pc = "err" =>
           /\ set = NoSet
           /\ error.from = "GpuTensor::vector"
           /\ error.at \in 1..8
           /\ error = UploadError(error.at)
           /\ UploadedNames = SubSeq(UploadOrder, 1, error.at - 1)
    /\ pc = "done" =>
           /\ error = NoError
           /\ set # NoSet
           /\ Len(uploads) = 8
           /\ UploadedNames = UploadOrder
    /\ set # NoSet => pc = "done"
    /\ \A j \in 1..Len(uploads), k \in 1..Len(uploads) :
           uploads[j].name = uploads[k].name => j = k

\* C11 witness: the upload of the poses (the fourth) failed in a new reached
\* through from_rapier with two bodies; three uploads were made.
C11_Witness ==
    /\ pc = "err"
    /\ via = "from_rapier"
    /\ Len(gpu_bodies) = 2
    /\ error = UploadError(4)
    /\ UploadedNames = <<"mprops", "local_mprops", "vels">>
    /\ set = NoSet

\* The vertices the collider of coupling entry i brings.
EntryVerts(i) == ColliderSet(coupling[i].collider).shape.verts

\* C12: in from_rapier the owner-id list is parallel to the vertex pool at
\* every step of the loop: it is as long as the pool; every vertex index in
\* the range of the shape of body i (0-based) has owner id i, the position
\* of the coupling entry; every owner id lies in the range of the shape of
\* its body; an entry adds as many owner ids as its shape has vertices, none
\* when it appends no vertex.
C12_OwnerIdsParallel ==
    via = "from_rapier" =>
        /\ Len(pt_collider_ids) = Len(shape_buffers)
        /\ \A i \in 1..Len(gpu_bodies) :
               /\ shape_type(gpu_bodies[i].shape) \in {"Polyline", "TriMesh"} =>
                      LET r == RangeOf(gpu_bodies[i].shape)
                      IN /\ r.end <= Len(pt_collider_ids)
                         /\ \A v \in (r.start + 1)..r.end : pt_collider_ids[v] = <<0, i - 1>>
               /\ Cardinality({v \in 1..Len(pt_collider_ids) : pt_collider_ids[v] = <<0, i - 1>>})
                      = Len(EntryVerts(i))
        /\ \A v \in 1..Len(pt_collider_ids) :
               \E i \in 1..Len(gpu_bodies) :
                   /\ pt_collider_ids[v] = <<0, i - 1>>
                   /\ RangeOf(gpu_bodies[i].shape).start < v
                   /\ v <= RangeOf(gpu_bodies[i].shape).end

\* C12 witness: in the loop, after a height field without vertices (entry 0)
\* and the 2-vertex polyline of collider handle 4 (entry 1), the owner ids
\* are [1, 1].
C12_Witness ==
    /\ pc = "loop"
    /\ Len(coupling) = 2
    /\ ColliderSet(coupling[1].collider).shape.kind = "HeightField"
    /\ coupling[2].collider = 4
    /\ ColliderSet(coupling[2].collider).shape.kind = "Polyline"
    /\ pt_collider_ids = <<<<0, 1>>, <<0, 1>>>>
    /\ Len(shape_buffers) = 2

(***************************************************************************)
(* Claims about the memory layout of GpuShape                              *)
(***************************************************************************)
\* C13: in the record of a Polyline or TriMesh shape the range start is one
\* of the primary parameters a.xyz and the range end is one of the secondary
\* parameters b.xyz (as the Memory Layout of GpuShape documents); the second
\* endpoint of a capsule is in b.xyz too.
C13_RangeEndInSecondary ==
    ctor.kind \in {"polyline", "trimesh"} =>
        /\ \E i \in 1..3 : to_bits(rec.a[i]) = ctor.rng[1]
        /\ \E i \in 1..3 : to_bits(rec.b[i]) = ctor.rng[2]

(***************************************************************************)
(* Claims about WgIntegrate::launch                                        *)
(***************************************************************************)
\* C14: every call of launch submits exactly one dispatch, of grid size
\* [bodies.len(), 1, 1], with the set's world mass-properties, local
\* mass-properties, pose and velocity buffers as arguments; it changes
\* nothing of the body set or of the host-side state; it returns Ok when the
\* backend accepts the submission and the backend's error, with no second
\* submission, when it refuses.
C14_OneDispatchPerLaunch ==
    [][(dispatches' # dispatches \/ launch_result' # launch_result) =>
           LET last == dispatches'[Len(dispatches')]
           IN /\ Len(dispatches') = Len(dispatches) + 1
              /\ SubSeq(dispatches', 1, Len(dispatches)) = dispatches
              /\ last.grid = <<Len(gpu_bodies), 1, 1>>
              /\ last.grid[1] = Len(set.mprops)
              /\ last.args = [mprops |-> "mprops", local_mprops |-> "local_mprops",
                              poses |-> "poses", vels |-> "vels"]
              /\ launch_result'.called
              /\ last.accepted <=> launch_result'.error = NoError
              /\ ~last.accepted => launch_result'.error = DispatchError
              /\ UNCHANGED <<set, gpu_bodies, shape_buffers, pt_collider_ids, uploads, pc,
                             error>>]_vars

\* C14 witness: launch was called twice on a set of two bodies; the backend
\* refused the first submission and accepted the second.
C14_Witness ==
    /\ pc = "done"
    /\ len(set) = 2
    /\ Len(dispatches) = 2
    /\ ~dispatches[1].accepted
    /\ dispatches[2].accepted
    /\ dispatches[2].grid = <<2, 1, 1>>
    /\ launch_result = [called |-> TRUE, error |-> NoError]

====
